---- MODULE Spec2Model ----
(***************************************************************************)
(* Model of the device storage aggregate (pkg/driver/common/common.go) and *)
(* of the certificate generation commands (cmd generate onboard / device). *)
(***************************************************************************)
EXTENDS Integers, Sequences, FiniteSets, TLC

VARIABLES
    devices,    \* device id -> DeviceStorage
    call,       \* the last Add* call: its arguments, its return value, the Writes it made
    accepted,   \* device id -> stream key -> data of the Add* calls that returned nil
    nops,       \* number of Add* calls made so far
    reader,     \* the ChunkReader handed out by Reader(), if any
    getRes,     \* the last Get(index) and its result
    genEnv,     \* a generate command's invocation: flags, file system, platform
    genRun,     \* what the command's Run did
    globalOptions,  \* the controller's GlobalOptions
    session,    \* device id -> state of its attestation session
    lastEval,   \* the last Evaluate and its result
    matches,    \* the evaluations that found a matching template
    raceMap,    \* AppLogs of one device as its goroutines share it: instance -> stream
    raceStreams,\* the chunks of the stream created for each instance
    creator,    \* instance -> position of the goroutine creating its substream
    appender,   \* instance -> position of the goroutine calling AddAppLog for it
    visible,    \* the instances some AddAppLog call has found in the mapping
    raceFatal   \* the runtime error that ended the process, "" when none

storageVars == <<devices, call, accepted, nops, reader, getRes>>
genVars == <<genEnv, genRun>>
attestVars == <<globalOptions, session, lastEval, matches>>
raceVars == <<raceMap, raceStreams, creator, appender, visible, raceFatal>>
vars == <<devices, call, accepted, nops, reader, getRes, genEnv, genRun,
          globalOptions, session, lastEval, matches,
          raceMap, raceStreams, creator, appender, visible, raceFatal>>

\* ------------------------------------------------------------------ bounds
MaxOps == 2
MaxStreamOps == 3
MaxCNLen == 3
MaxNonces == 2
MaxAttestWrites == 1
MaxRaceCalls == 2

Devices == {"d1", "d2"}
Instances == {"A", "B"}
Data == {"x", "y"}

\* ------------------------------------------------------------------ errors
NoErr == "nil"
\* what a backend's Write may return
WriteOutcomes == {NoErr, "EIO"}
ErrEOF == "EOF"
ErrChunkNotFound == "NotFound"

ErrLogsUninit == "AddLog: Logs struct not yet initialized"
ErrAppLogsUninit == "AddAppLog: AppLogs struct not yet initialized"
ErrAppLogsInstance(instanceID) == "AddAppLog: AppLogs for instance " \o instanceID \o " not yet initialized"
ErrInfoUninit == "AddInfo: Info struct not yet initialized"
ErrMetricsUninit == "AddMetrics: Metrics struct not yet initialized"
ErrRequestsUninit == "AddRequest: Requests struct not yet initialized"
ErrFlowUninit == "AddFlowRecord: FlowMessage struct not yet initialized"

\* ------------------------------------------------------------------ BigData
\* A BigData interface value: nil, or a handle on an ordered list of chunks.
NilStream == [isNil |-> TRUE, chunks |-> <<>>]
NewStream == [isNil |-> FALSE, chunks |-> <<>>]

\* BigData.Write(b): on success the data becomes the stream's last chunk;
\* on failure the backend reports its error and the stream is as before.
Write(s, b, outcome) ==
    IF outcome = NoErr
    THEN [stream |-> [s EXCEPT !.chunks = Append(@, b)], err |-> NoErr]
    ELSE [stream |-> s, err |-> outcome]

\* BigData.Get(index): the chunk at index (0-based), or NotFound.
Get(s, index) ==
    IF index >= 0 /\ index < Len(s.chunks)
    THEN [data |-> s.chunks[index + 1], err |-> NoErr]
    ELSE [data |-> "", err |-> ErrChunkNotFound]

\* ChunkReader.Next() at position pos: the next chunk, or io.EOF.
ChunkReaderNext(s, pos) ==
    IF pos < Len(s.chunks)
    THEN [data |-> s.chunks[pos + 1], err |-> NoErr]
    ELSE [data |-> "", err |-> ErrEOF]

\* ------------------------------------------------------------ DeviceStorage
NilAppLogs == [isNil |-> TRUE, m |-> <<>>]
NilBytes == [isNil |-> TRUE]

\* the zero value of the struct
DeviceStorage ==
    [ Cert |-> "nil", Info |-> NilStream, Metrics |-> NilStream, Logs |-> NilStream,
      Requests |-> NilStream, FlowMessage |-> NilStream, Certs |-> NilStream,
      AppLogs |-> NilAppLogs, CurrentLog |-> 0, Config |-> NilBytes,
      AttestCerts |-> NilBytes, StorageKeys |-> NilBytes, Serial |-> "",
      Onboard |-> "nil", Options |-> NilBytes ]

NoWrites == <<>>
WriteCall(field, b, err) == <<[stream |-> field, data |-> b, err |-> err]>>

\* AddLogs calling Write a second time
AddLogsWritesTwice(d, b, outcome) ==
    IF d.Logs.isNil
    THEN [d |-> d, err |-> ErrLogsUninit, writes |-> NoWrites]
    ELSE LET w == Write(d.Logs, b, outcome)
             v == Write(w.stream, b, outcome)
         IN [d |-> [d EXCEPT !.Logs = v.stream], err |-> v.err,
             writes |-> WriteCall("Logs", b, w.err) \o WriteCall("Logs", b, v.err)]

AddLogs(d, b, outcome) ==
    IF d.Logs.isNil
    THEN [d |-> d, err |-> ErrLogsUninit, writes |-> NoWrites]
    ELSE LET w == Write(d.Logs, b, outcome)
         IN [d |-> [d EXCEPT !.Logs = w.stream], err |-> w.err,
             writes |-> WriteCall("Logs", b, w.err)]

\* AddAppLog creating the missing substream on write
AddAppLogAutoCreate(d, instanceID, b, outcome) ==
    IF d.AppLogs.isNil
    THEN [d |-> d, err |-> ErrAppLogsUninit, writes |-> NoWrites]
    ELSE LET cur == IF instanceID \in DOMAIN d.AppLogs.m THEN d.AppLogs.m[instanceID] ELSE NewStream
             w == Write(cur, b, outcome)
         IN [d |-> [d EXCEPT !.AppLogs.m =
                       [k \in DOMAIN @ \cup {instanceID} |-> IF k = instanceID THEN w.stream ELSE @[k]]],
             err |-> w.err, writes |-> WriteCall(instanceID, b, w.err)]

AddAppLog(d, instanceID, b, outcome) ==
    IF d.AppLogs.isNil
    THEN [d |-> d, err |-> ErrAppLogsUninit, writes |-> NoWrites]
    ELSE IF instanceID \notin DOMAIN d.AppLogs.m
    THEN [d |-> d, err |-> ErrAppLogsInstance(instanceID), writes |-> NoWrites]
    ELSE LET w == Write(d.AppLogs.m[instanceID], b, outcome)
         IN [d |-> [d EXCEPT !.AppLogs.m[instanceID] = w.stream], err |-> w.err,
             writes |-> WriteCall(instanceID, b, w.err)]

AddInfo(d, b, outcome) ==
    IF d.Info.isNil
    THEN [d |-> d, err |-> ErrInfoUninit, writes |-> NoWrites]
    ELSE LET w == Write(d.Info, b, outcome)
         IN [d |-> [d EXCEPT !.Info = w.stream], err |-> w.err,
             writes |-> WriteCall("Info", b, w.err)]

\* AddMetrics writing to the Logs stream
AddMetricsIntoLogs(d, b, outcome) ==
    IF d.Metrics.isNil
    THEN [d |-> d, err |-> ErrMetricsUninit, writes |-> NoWrites]
    ELSE LET w == Write(d.Logs, b, outcome)
         IN [d |-> [d EXCEPT !.Logs = w.stream], err |-> w.err,
             writes |-> WriteCall("Metrics", b, w.err)]

AddMetrics(d, b, outcome) ==
    IF d.Metrics.isNil
    THEN [d |-> d, err |-> ErrMetricsUninit, writes |-> NoWrites]
    ELSE LET w == Write(d.Metrics, b, outcome)
         IN [d |-> [d EXCEPT !.Metrics = w.stream], err |-> w.err,
             writes |-> WriteCall("Metrics", b, w.err)]

\* AddRequest dropping the error of Write
AddRequestDropsError(d, b, outcome) ==
    IF d.Requests.isNil
    THEN [d |-> d, err |-> ErrRequestsUninit, writes |-> NoWrites]
    ELSE LET w == Write(d.Requests, b, outcome)
         IN [d |-> [d EXCEPT !.Requests = w.stream], err |-> NoErr,
             writes |-> WriteCall("Requests", b, w.err)]

AddRequest(d, b, outcome) ==
    IF d.Requests.isNil
    THEN [d |-> d, err |-> ErrRequestsUninit, writes |-> NoWrites]
    ELSE LET w == Write(d.Requests, b, outcome)
         IN [d |-> [d EXCEPT !.Requests = w.stream], err |-> w.err,
             writes |-> WriteCall("Requests", b, w.err)]

AddFlowRecord(d, b, outcome) ==
    IF d.FlowMessage.isNil
    THEN [d |-> d, err |-> ErrFlowUninit, writes |-> NoWrites]
    ELSE LET w == Write(d.FlowMessage, b, outcome)
         IN [d |-> [d EXCEPT !.FlowMessage = w.stream], err |-> w.err,
             writes |-> WriteCall("FlowMessage", b, w.err)]

\* ------------------------------------------------------- base constructors
CreateBaseConfig(u) == [isNil |-> FALSE, uuid |-> u, version |-> "4"]

\* base options created already attested
CreateBaseDeviceOptionsAttested(u) ==
    [ isNil |-> FALSE, nonce |-> "", integrityToken |-> "",
      receivedPCRTemplate |-> <<>>, attested |-> TRUE, eventLog |-> <<>> ]

CreateBaseDeviceOptions(u) ==
    [ isNil |-> FALSE, nonce |-> "", integrityToken |-> "",
      receivedPCRTemplate |-> <<>>, attested |-> FALSE, eventLog |-> <<>> ]

CreateBaseGlobalOptions == [enforceTemplateAttestation |-> FALSE, PCRTemplates |-> <<>>]

\* --------------------------------------------------------------- the state
StreamFields == {"Info", "Metrics", "Logs", "Requests", "FlowMessage"}
StreamKeys == StreamFields \cup Instances

\* the stream a key names in a DeviceStorage (nil when there is none)
StreamOf(d, key) ==
    CASE key = "Info" -> d.Info
      [] key = "Metrics" -> d.Metrics
      [] key = "Logs" -> d.Logs
      [] key = "Requests" -> d.Requests
      [] key = "FlowMessage" -> d.FlowMessage
      [] OTHER -> IF ~d.AppLogs.isNil /\ key \in DOMAIN d.AppLogs.m
                  THEN d.AppLogs.m[key] ELSE NilStream

NoCall == [op |-> "none", dev |-> "", key |-> "", data |-> "", err |-> NoErr, writes |-> NoWrites]
NoReader == [open |-> FALSE, dev |-> "", key |-> "", pos |-> 0, got |-> <<>>, eof |-> FALSE]
NoGet == [dev |-> "", key |-> "", index |-> 0, data |-> "", err |-> NoErr, done |-> FALSE]

NoGenEnv == [command |-> "none", onboardingDatabasePath |-> <<>>, deviceDatabasePath |-> <<>>,
             kind |-> "missing", cn |-> <<>>, force |-> FALSE, goos |-> "linux"]
NoGenRun == [exited |-> FALSE, fatal |-> "", cnSquashed |-> <<>>, generate |-> <<>>]

InitStorage ==
    /\ devices = [dev \in Devices |-> DeviceStorage]
    /\ call = NoCall
    /\ accepted = [dev \in Devices |-> [key \in StreamKeys |-> <<>>]]
    /\ nops = 0
    /\ reader = NoReader
    /\ getRes = NoGet

InitNoGen == genEnv = NoGenEnv /\ genRun = NoGenRun

NoTemplate == [eveVersion |-> "", firmwareVersion |-> "", PCRValues |-> <<>>]
NoEval == [op |-> "none", dev |-> "", enforce |-> FALSE, templates |-> <<>>,
           received |-> NoTemplate, matched |-> FALSE, index |-> 0, err |-> NoErr]

InitAttest ==
    /\ globalOptions = CreateBaseGlobalOptions
    /\ session = [dev \in Devices |-> [stage |-> "Unchallenged", nonces |-> 0]]
    /\ lastEval = NoEval
    /\ matches = {}

\* a provisioned device: the mapping exists and is empty, nothing runs
InitRace ==
    /\ raceMap = <<>>
    /\ raceStreams = [i \in Instances |-> <<>>]
    /\ creator = [i \in Instances |-> [pc |-> "idle", shared |-> FALSE]]
    /\ appender = [i \in Instances |-> [pc |-> "idle", data |-> "", calls |-> 0, err |-> NoErr]]
    /\ visible = {}
    /\ raceFatal = ""

Init == InitStorage /\ InitNoGen /\ InitAttest /\ InitRace

\* The driver provisions a device: its streams and the AppLogs mapping are
\* created together, with the base configuration and the base options.
Provision(dev, onboard) ==
    /\ devices[dev].Logs.isNil
    /\ devices' = [devices EXCEPT ![dev] =
          [ Cert |-> "cert-" \o dev, Info |-> NewStream, Metrics |-> NewStream,
            Logs |-> NewStream, Requests |-> NewStream, FlowMessage |-> NewStream,
            Certs |-> NewStream, AppLogs |-> [isNil |-> FALSE, m |-> <<>>],
            CurrentLog |-> 0, Config |-> CreateBaseConfig(dev),
            AttestCerts |-> NilBytes, StorageKeys |-> NilBytes, Serial |-> "serial-" \o dev,
            Onboard |-> onboard, Options |-> CreateBaseDeviceOptions(dev) ]]
    /\ UNCHANGED <<call, accepted, nops, reader, getRes, genVars, attestVars, raceVars>>

\* The caller creates the substream of an application instance it sees first.
CreateAppLog(dev, instanceID) ==
    /\ ~devices[dev].AppLogs.isNil
    /\ instanceID \notin DOMAIN devices[dev].AppLogs.m
    /\ devices' = [devices EXCEPT ![dev].AppLogs.m =
          [k \in DOMAIN @ \cup {instanceID} |-> IF k = instanceID THEN NewStream ELSE @[k]]]
    /\ UNCHANGED <<call, accepted, nops, reader, getRes, genVars, attestVars, raceVars>>

\* One Add* call on device dev, with r what the method computed.
Called(op, dev, key, b, r) ==
    /\ nops' = nops + 1
    /\ devices' = [devices EXCEPT ![dev] = r.d]
    /\ call' = [op |-> op, dev |-> dev, key |-> key, data |-> b, err |-> r.err, writes |-> r.writes]
    /\ accepted' = IF r.err = NoErr
                   THEN [accepted EXCEPT ![dev][key] = Append(@, b)]
                   ELSE accepted
    /\ UNCHANGED <<reader, getRes, genVars, attestVars, raceVars>>

DoAddLogs(dev, b, o) == Called("AddLogs", dev, "Logs", b, AddLogs(devices[dev], b, o))
DoAddInfo(dev, b, o) == Called("AddInfo", dev, "Info", b, AddInfo(devices[dev], b, o))
DoAddMetrics(dev, b, o) == Called("AddMetrics", dev, "Metrics", b, AddMetrics(devices[dev], b, o))
DoAddRequest(dev, b, o) == Called("AddRequest", dev, "Requests", b, AddRequest(devices[dev], b, o))
DoAddFlowRecord(dev, b, o) ==
    Called("AddFlowRecord", dev, "FlowMessage", b, AddFlowRecord(devices[dev], b, o))
DoAddAppLog(dev, instanceID, b, o) ==
    Called("AddAppLog", dev, instanceID, b, AddAppLog(devices[dev], instanceID, b, o))

\* Reader() on a provisioned stream: a fresh forward-only iterator.
OpenReader(dev, key) ==
    /\ ~reader.open \/ reader.eof
    /\ ~StreamOf(devices[dev], key).isNil
    /\ reader' = [open |-> TRUE, dev |-> dev, key |-> key, pos |-> 0, got |-> <<>>, eof |-> FALSE]
    /\ UNCHANGED <<devices, call, accepted, nops, getRes, genVars, attestVars, raceVars>>

\* Next() on the iterator: the chunk at its position, or io.EOF.
ReaderNext ==
    /\ reader.open
    /\ ~reader.eof
    /\ LET n == ChunkReaderNext(StreamOf(devices[reader.dev], reader.key), reader.pos)
       IN reader' = IF n.err = NoErr
                    THEN [reader EXCEPT !.pos = @ + 1, !.got = Append(@, n.data)]
                    ELSE [reader EXCEPT !.eof = TRUE]
    /\ UNCHANGED <<devices, call, accepted, nops, getRes, genVars, attestVars, raceVars>>

\* Get(index) on a provisioned stream.
DoGet(dev, key, index) ==
    /\ ~StreamOf(devices[dev], key).isNil
    /\ LET g == Get(StreamOf(devices[dev], key), index)
       IN getRes' = [dev |-> dev, key |-> key, index |-> index, data |-> g.data,
                     err |-> g.err, done |-> TRUE]
    /\ UNCHANGED <<devices, call, accepted, nops, reader, genVars, attestVars, raceVars>>

\* ---------------------------------------------- Spec: the Add* operations
ProvisionDevice == \E dev \in Devices : Provision(dev, "onboard-cert")
ProvisionAppLog == \E dev \in Devices, i \in Instances : CreateAppLog(dev, i)
CallAddLogs ==
    nops < MaxOps /\ \E dev \in Devices, b \in Data, o \in WriteOutcomes : DoAddLogs(dev, b, o)
CallAddInfo ==
    nops < MaxOps /\ \E dev \in Devices, b \in Data, o \in WriteOutcomes : DoAddInfo(dev, b, o)
CallAddMetrics ==
    nops < MaxOps /\ \E dev \in Devices, b \in Data, o \in WriteOutcomes : DoAddMetrics(dev, b, o)
CallAddRequest ==
    nops < MaxOps /\ \E dev \in Devices, b \in Data, o \in WriteOutcomes : DoAddRequest(dev, b, o)
CallAddFlowRecord ==
    nops < MaxOps /\ \E dev \in Devices, b \in Data, o \in WriteOutcomes : DoAddFlowRecord(dev, b, o)
CallAddAppLog ==
    nops < MaxOps /\ \E dev \in Devices, i \in Instances, b \in Data, o \in WriteOutcomes :
        DoAddAppLog(dev, i, b, o)

Next ==
    \/ ProvisionDevice
    \/ ProvisionAppLog
    \/ CallAddLogs
    \/ CallAddInfo
    \/ CallAddMetrics
    \/ CallAddRequest
    \/ CallAddFlowRecord
    \/ CallAddAppLog

Spec == Init /\ [][Next]_vars

\* ------------------------------------------------------------- properties
IsAddStep == nops' = nops + 1

\* the Uninitialized error of each single-stream operation
UninitializedOf(op) ==
    CASE op = "AddLogs" -> ErrLogsUninit
      [] op = "AddInfo" -> ErrInfoUninit
      [] op = "AddMetrics" -> ErrMetricsUninit
      [] op = "AddRequest" -> ErrRequestsUninit
      [] op = "AddFlowRecord" -> ErrFlowUninit
      [] OTHER -> ErrAppLogsUninit

\* d with the stream named key replaced by s (d itself when it has no such stream)
WithStream(d, key, s) ==
    CASE key = "Info" -> [d EXCEPT !.Info = s]
      [] key = "Metrics" -> [d EXCEPT !.Metrics = s]
      [] key = "Logs" -> [d EXCEPT !.Logs = s]
      [] key = "Requests" -> [d EXCEPT !.Requests = s]
      [] key = "FlowMessage" -> [d EXCEPT !.FlowMessage = s]
      [] OTHER -> IF ~d.AppLogs.isNil /\ key \in DOMAIN d.AppLogs.m
                  THEN [d EXCEPT !.AppLogs.m[key] = s] ELSE d

\* the call made exactly one Write(data) on its stream and returned that Write's error
DelegatedOnce(c, before, after) ==
    /\ Len(c.writes) = 1
    /\ c.writes[1].stream = c.key
    /\ c.writes[1].data = c.data
    /\ c.err = c.writes[1].err
    /\ c.err \in WriteOutcomes
    /\ after.chunks = IF c.err = NoErr THEN Append(before.chunks, c.data) ELSE before.chunks

\* C1: each of AddLogs, AddInfo, AddMetrics, AddRequest, AddFlowRecord returns
\* its Uninitialized error and performs no Write when its stream field is nil;
\* otherwise it performs exactly one Write(data) on that stream and returns
\* the error (or nil) of that Write.
C1_AddDelegates ==
    [][ (IsAddStep /\ call'.key \in StreamFields) =>
          LET before == StreamOf(devices[call'.dev], call'.key)
              after == StreamOf(devices'[call'.dev], call'.key)
          IN IF before.isNil
             THEN /\ call'.err = UninitializedOf(call'.op)
                  /\ call'.writes = NoWrites
                  /\ devices' = devices
             ELSE DelegatedOnce(call', before, after) ]_vars

C1_Witness ==
    /\ call.op = "AddFlowRecord"
    /\ call.err = "EIO"
    /\ Len(call.writes) = 1
    /\ accepted[call.dev]["Logs"] # <<>>

\* C2: AddAppLog fails with Uninitialized when the AppLogs mapping is nil, with
\* NotFound when the mapping has no stream for the instance, and otherwise
\* delegates to the instance's stream; the keys of AppLogs are never changed.
C2_AddAppLog ==
    [][ (IsAddStep /\ call'.op = "AddAppLog") =>
          LET d == devices[call'.dev]
              e == devices'[call'.dev]
          IN /\ e.AppLogs.isNil = d.AppLogs.isNil
             /\ DOMAIN e.AppLogs.m = DOMAIN d.AppLogs.m
             /\ IF d.AppLogs.isNil
                THEN call'.err = ErrAppLogsUninit /\ call'.writes = NoWrites /\ e = d
                ELSE IF call'.key \notin DOMAIN d.AppLogs.m
                THEN /\ call'.err = ErrAppLogsInstance(call'.key)
                     /\ call'.writes = NoWrites
                     /\ e = d
                ELSE DelegatedOnce(call', d.AppLogs.m[call'.key], e.AppLogs.m[call'.key]) ]_vars

C2_Witness ==
    /\ call.op = "AddAppLog"
    /\ call.key = "B"
    /\ call.err = ErrAppLogsInstance("B")
    /\ DOMAIN devices[call.dev].AppLogs.m = {"A"}

\* C3: an Add* call, succeeding or failing, changes at most the stream it
\* targets: every other stream and field of the device, and every other
\* device, are as before.
C3_Frame ==
    [][ IsAddStep =>
          /\ \A dev \in Devices \ {call'.dev} : devices'[dev] = devices[dev]
          /\ WithStream(devices'[call'.dev], call'.key,
                        StreamOf(devices[call'.dev], call'.key)) = devices[call'.dev] ]_vars

C3_Witness ==
    /\ call.op = "AddMetrics"
    /\ call.err = "EIO"
    /\ call.writes # NoWrites
    /\ devices[call.dev].Logs.chunks # <<>>
    /\ \A dev \in Devices : ~devices[dev].Info.isNil

\* ------------------------------- SpecStream: writing and reading a stream
StreamDevice == "d1"
StreamReadKeys == {"Logs", "A"}

StreamProvision == Provision(StreamDevice, "nil")
StreamCreateAppLog == CreateAppLog(StreamDevice, "A")
StreamAddLogs ==
    nops < MaxStreamOps /\ \E b \in Data, o \in WriteOutcomes : DoAddLogs(StreamDevice, b, o)
StreamAddAppLog ==
    nops < MaxStreamOps /\ \E b \in Data, o \in WriteOutcomes : DoAddAppLog(StreamDevice, "A", b, o)
StreamReader == \E key \in StreamReadKeys : OpenReader(StreamDevice, key)
StreamGet == \E key \in StreamReadKeys, index \in 0..MaxStreamOps : DoGet(StreamDevice, key, index)

NextStream ==
    \/ StreamProvision
    \/ StreamCreateAppLog
    \/ StreamAddLogs
    \/ StreamAddAppLog
    \/ StreamReader
    \/ ReaderNext
    \/ StreamGet

SpecStream == Init /\ [][NextStream]_vars

IsPrefix(s, t) == Len(s) <= Len(t) /\ SubSeq(t, 1, Len(s)) = s

CNChars == {"a", "Z", "7", ".", "-", "/", "\\", " "}

\* The pattern is the raw string [^a-zA-Z0-9\\.\\-]: a negated class listing
\* the ranges a-z, A-Z, 0-9, the escape \\ (a backslash), the dot, the escape
\* \\ again and the hyphen.
ClassListed == {"a"} \cup {"Z"} \cup {"7"} \cup {"\\"} \cup {"."} \cup {"\\"} \cup {"-"}
ReMatches(c) == c \notin ClassListed

\* re.ReplaceAllString(src, repl) for a pattern that matches single characters
ReplaceAllString(src, repl) ==
    [i \in 1..Len(src) |-> IF ReMatches(src[i]) THEN repl ELSE src[i]]

SuffixPem == <<".", "p", "e", "m">>
SuffixKeyPem == <<"-", "k", "e", "y", ".", "p", "e", "m">>

\* the elements of a path between the separators seps (empty ones included)
RECURSIVE SplitFrom(_, _, _, _)
SplitFrom(p, seps, i, acc) ==
    IF i > Len(p) THEN acc
    ELSE SplitFrom(p, seps, i + 1,
                   IF p[i] \in seps THEN Append(acc, <<>>)
                   ELSE [acc EXCEPT ![Len(acc)] = Append(@, p[i])])

Split(p, seps) == SplitFrom(p, seps, 1, << <<>> >>)

\* lexical resolution of a path's elements: empty and "." elements dropped,
\* ".." removing the element before it (dropped at the root, kept otherwise)
RECURSIVE ResolveFrom(_, _, _, _)
ResolveFrom(elems, rooted, i, st) ==
    IF i > Len(elems) THEN st
    ELSE ResolveFrom(elems, rooted, i + 1,
            IF elems[i] = <<>> \/ elems[i] = <<".">> THEN st
            ELSE IF elems[i] = <<".", ".">>
            THEN IF Len(st) > 0 /\ st[Len(st)] # <<".", ".">>
                 THEN SubSeq(st, 1, Len(st) - 1)
                 ELSE IF rooted THEN st ELSE Append(st, elems[i])
            ELSE Append(st, elems[i]))

Resolve(elems, rooted) == ResolveFrom(elems, rooted, 1, <<>>)

IsRooted(p, seps) == Len(p) > 0 /\ p[1] \in seps

\* elements joined by "/"
RECURSIVE JoinedFrom(_, _, _)
JoinedFrom(elems, i, acc) ==
    IF i > Len(elems) THEN acc
    ELSE JoinedFrom(elems, i + 1, IF i = 1 THEN elems[1] ELSE acc \o <<"/">> \o elems[i])

Joined(elems) == JoinedFrom(elems, 1, <<>>)

\* path.Clean
Clean(p) ==
    LET rooted == IsRooted(p, {"/"})
        out == (IF rooted THEN <<"/">> ELSE <<>>) \o Joined(Resolve(Split(p, {"/"}), rooted))
    IN IF out = <<>> THEN <<".">> ELSE out

\* path.Join(dir, name) of two non-empty elements
Join(dir, name) == Clean(dir \o <<"/">> \o name)

NoGenerate == <<>>
Fatalf(msg) == [exited |-> TRUE, fatal |-> msg, cnSquashed |-> <<>>, generate |-> NoGenerate]

\* generateOnboardCmd.Run; generr is what x509.Generate returns when called
GenerateOnboardRun(env, generr) ==
    IF env.onboardingDatabasePath = <<>>
    THEN Fatalf("onboarding path must be set")
    ELSE IF env.kind = "missing"
    THEN Fatalf("onboarding database path does not exist")
    ELSE IF env.kind # "dir"
    THEN Fatalf("onboarding database path is not a directory")
    ELSE LET cnSquashed == ReplaceAllString(env.cn, "_")
             certPath == Join(env.onboardingDatabasePath, cnSquashed \o SuffixPem)
             keyPath == Join(env.onboardingDatabasePath, cnSquashed \o SuffixKeyPem)
         IN [ exited |-> TRUE,
              fatal |-> IF generr = NoErr THEN "" ELSE "error generating key/cert",
              cnSquashed |-> cnSquashed,
              generate |-> <<[cn |-> env.cn, hosts |-> "", certPath |-> certPath,
                              keyPath |-> keyPath, force |-> env.force]>> ]

\* generateDeviceCmd.Run without the IsDir check
GenerateDeviceRunNoIsDir(env, generr) ==
    IF env.deviceDatabasePath = <<>>
    THEN Fatalf("device path must be set")
    ELSE IF env.kind = "missing"
    THEN Fatalf("device database path does not exist")
    ELSE LET cnSquashed == ReplaceAllString(env.cn, "_")
             certPath == Join(env.deviceDatabasePath, cnSquashed \o SuffixPem)
             keyPath == Join(env.deviceDatabasePath, cnSquashed \o SuffixKeyPem)
         IN [ exited |-> TRUE,
              fatal |-> IF generr = NoErr THEN "" ELSE "error generating key/cert",
              cnSquashed |-> cnSquashed,
              generate |-> <<[cn |-> env.cn, hosts |-> "", certPath |-> certPath,
                              keyPath |-> keyPath, force |-> env.force]>> ]

\* generateDeviceCmd.Run
GenerateDeviceRun(env, generr) ==
    IF env.deviceDatabasePath = <<>>
    THEN Fatalf("device path must be set")
    ELSE IF env.kind = "missing"
    THEN Fatalf("device database path does not exist")
    ELSE IF env.kind # "dir"
    THEN Fatalf("device database path is not a directory")
    ELSE LET cnSquashed == ReplaceAllString(env.cn, "_")
             certPath == Join(env.deviceDatabasePath, cnSquashed \o SuffixPem)
             keyPath == Join(env.deviceDatabasePath, cnSquashed \o SuffixKeyPem)
         IN [ exited |-> TRUE,
              fatal |-> IF generr = NoErr THEN "" ELSE "error generating key/cert",
              cnSquashed |-> cnSquashed,
              generate |-> <<[cn |-> env.cn, hosts |-> "", certPath |-> certPath,
                              keyPath |-> keyPath, force |-> env.force]>> ]

\* ------------------------------------------ SpecGen: one command invocation
CommonNames == UNION {[1..n -> CNChars] : n \in 0..MaxCNLen}
DbPaths == {<<>>, <<"d">>, <<"d", "/", "o">>}
FileKinds == {"missing", "file", "dir"}
Platforms == {"linux", "windows"}
GenerateOutcomes == {NoErr, "AlreadyExists"}

\* the target directory flag of the invoked command
DbPath(env) ==
    IF env.command = "onboard" THEN env.onboardingDatabasePath ELSE env.deviceDatabasePath

InitGen ==
    /\ InitStorage
    /\ InitAttest
    /\ InitRace
    /\ \E command \in {"onboard", "device"}, p \in DbPaths, kind \in FileKinds,
          cn \in CommonNames, force \in BOOLEAN, goos \in Platforms :
          /\ p = <<>> => kind = "missing"
          /\ genEnv = [ command |-> command,
                        onboardingDatabasePath |-> IF command = "onboard" THEN p ELSE <<>>,
                        deviceDatabasePath |-> IF command = "device" THEN p ELSE <<>>,
                        kind |-> kind, cn |-> cn, force |-> force, goos |-> goos ]
    /\ genRun = NoGenRun

GenerateOnboard ==
    /\ genEnv.command = "onboard"
    /\ ~genRun.exited
    /\ \E generr \in GenerateOutcomes : genRun' = GenerateOnboardRun(genEnv, generr)
    /\ UNCHANGED <<storageVars, genEnv, attestVars, raceVars>>

GenerateDevice ==
    /\ genEnv.command = "device"
    /\ ~genRun.exited
    /\ \E generr \in GenerateOutcomes : genRun' = GenerateDeviceRun(genEnv, generr)
    /\ UNCHANGED <<storageVars, genEnv, attestVars, raceVars>>

NextGen == GenerateOnboard \/ GenerateDevice

SpecGen == InitGen /\ [][NextGen]_vars

\* ------------------------------------------------ attestation policy engine
\* PCRValue.Value of a template: "*" allows any value
Wildcard == "*"

PCRValue(index, value) == [index |-> index, value |-> value]
PCRTemplate(eve, fw, values) == [eveVersion |-> eve, firmwareVersion |-> fw, PCRValues |-> values]

\* the reported value at a PCR index: <<v>>, or <<>> when none is reported
RECURSIVE ReportedAt(_, _, _)
ReportedAt(values, index, i) ==
    IF i > Len(values) THEN <<>>
    ELSE IF values[i].index = index THEN <<values[i].value>>
    ELSE ReportedAt(values, index, i + 1)

\* one template value against the reported values
Satisfied(v, received) ==
    v.value = Wildcard \/ ReportedAt(received.PCRValues, v.index, 1) = <<v.value>>

RECURSIVE ValuesSatisfied(_, _, _)
ValuesSatisfied(template, received, i) ==
    IF i > Len(template.PCRValues) THEN TRUE
    ELSE IF Satisfied(template.PCRValues[i], received)
    THEN ValuesSatisfied(template, received, i + 1)
    ELSE FALSE

\* template matching without the wildcard
TemplateMatchesExactOnly(template, received) ==
    /\ template.eveVersion = received.eveVersion
    /\ template.firmwareVersion = received.firmwareVersion
    /\ \A k \in 1..Len(template.PCRValues) :
          ReportedAt(received.PCRValues, template.PCRValues[k].index, 1)
             = <<template.PCRValues[k].value>>

TemplateMatches(template, received) ==
    /\ template.eveVersion = received.eveVersion
    /\ template.firmwareVersion = received.firmwareVersion
    /\ ValuesSatisfied(template, received, 1)

\* index of the first template of the list that matches, 0 when none does
RECURSIVE FirstMatch(_, _, _)
FirstMatch(templates, received, i) ==
    IF i > Len(templates) THEN 0
    ELSE IF TemplateMatches(templates[i], received) THEN i
    ELSE FirstMatch(templates, received, i + 1)

FreshNonce(n) == "nonce-" \o ToString(n)
FreshToken(n, index) == "token-" \o ToString(n) \o "-template-" \o ToString(index)

\* Evaluate on a device's options, serial numbering the token it may issue
Evaluate(options, global, serial) ==
    IF ~global.enforceTemplateAttestation
    THEN [options |-> options, matched |-> TRUE, index |-> 0, stage |-> "same"]
    ELSE LET index == FirstMatch(global.PCRTemplates, options.receivedPCRTemplate[1], 1)
         IN IF index > 0
            THEN [ options |-> [options EXCEPT !.attested = TRUE,
                                               !.integrityToken = FreshToken(serial, index)],
                   matched |-> TRUE, index |-> index, stage |-> "Attested" ]
            ELSE [ options |-> [options EXCEPT !.integrityToken = ""],
                   matched |-> FALSE, index |-> 0, stage |-> "Rejected" ]

ErrInvalidState == "InvalidState"

\* --------------------------------------- SpecAttest: one device's session
AttestDevice == "d1"

TemplateWildcard == PCRTemplate("1.0", "2.0", <<PCRValue(0, "*"), PCRValue(1, "abc")>>)
TemplateExact == PCRTemplate("1.0", "2.0", <<PCRValue(1, "abc")>>)
TemplateOther == PCRTemplate("1.1", "2.0", <<PCRValue(0, "zzz")>>)

GlobalOptionsSet ==
    { CreateBaseGlobalOptions,
      [enforceTemplateAttestation |-> TRUE, PCRTemplates |-> <<>>],
      [enforceTemplateAttestation |-> TRUE, PCRTemplates |-> <<TemplateWildcard, TemplateExact>>],
      [enforceTemplateAttestation |-> TRUE, PCRTemplates |-> <<TemplateOther, TemplateExact, TemplateWildcard>>],
      [enforceTemplateAttestation |-> FALSE, PCRTemplates |-> <<TemplateWildcard>>] }

ReportedTemplates ==
    { PCRTemplate("1.0", "2.0", <<PCRValue(0, "zzz"), PCRValue(1, "abc")>>),
      PCRTemplate("1.0", "2.0", <<PCRValue(0, "zzz"), PCRValue(1, "xyz")>>),
      PCRTemplate("1.0", "2.1", <<PCRValue(0, "zzz"), PCRValue(1, "abc")>>),
      PCRTemplate("1.0", "2.0", <<PCRValue(0, "abc")>>) }

SetGlobalOptions ==
    /\ \E g \in GlobalOptionsSet : g # globalOptions /\ globalOptions' = g
    /\ UNCHANGED <<storageVars, genVars, session, lastEval, matches, raceVars>>

IssueNonce ==
    LET dev == AttestDevice
        ses == session[dev]
    IN /\ ~devices[dev].Options.isNil
       /\ ses.nonces < MaxNonces
       /\ devices' = [devices EXCEPT ![dev].Options.nonce = FreshNonce(ses.nonces + 1)]
       /\ session' = [session EXCEPT ![dev].stage = "NonceIssued", ![dev].nonces = @ + 1]
       /\ lastEval' = [NoEval EXCEPT !.op = "IssueNonce", !.dev = dev]
       /\ UNCHANGED <<call, accepted, nops, reader, getRes, genVars, globalOptions, matches, raceVars>>

RecordMeasurement ==
    LET dev == AttestDevice
    IN /\ ~devices[dev].Options.isNil
       /\ \E reported \in ReportedTemplates :
            IF session[dev].stage = "NonceIssued"
            THEN /\ devices' = [devices EXCEPT ![dev].Options.receivedPCRTemplate = <<reported>>,
                                               ![dev].Options.eventLog = Append(@, "event")]
                 /\ session' = [session EXCEPT ![dev].stage = "MeasurementReceived"]
                 /\ lastEval' = [NoEval EXCEPT !.op = "RecordMeasurement", !.dev = dev]
            ELSE /\ lastEval' = [NoEval EXCEPT !.op = "RecordMeasurement", !.dev = dev,
                                               !.err = ErrInvalidState]
                 /\ UNCHANGED <<devices, session>>
       /\ UNCHANGED <<call, accepted, nops, reader, getRes, genVars, globalOptions, matches, raceVars>>

DoEvaluate ==
    LET dev == AttestDevice
        ses == session[dev]
        options == devices[dev].Options
    IN /\ ~options.isNil
       /\ IF ses.stage = "MeasurementReceived"
          THEN LET r == Evaluate(options, globalOptions, ses.nonces)
               IN /\ devices' = [devices EXCEPT ![dev].Options = r.options]
                  /\ session' = [session EXCEPT
                        ![dev].stage = IF r.stage = "same" THEN @ ELSE r.stage]
                  /\ lastEval' = [ op |-> "Evaluate", dev |-> dev,
                                   enforce |-> globalOptions.enforceTemplateAttestation,
                                   templates |-> globalOptions.PCRTemplates,
                                   received |-> options.receivedPCRTemplate[1],
                                   matched |-> r.matched, index |-> r.index, err |-> NoErr ]
                  /\ matches' = IF r.stage = "Attested"
                                THEN matches \cup {[dev |-> dev, templates |-> globalOptions.PCRTemplates,
                                                    received |-> options.receivedPCRTemplate[1]]}
                                ELSE matches
          ELSE /\ lastEval' = [NoEval EXCEPT !.op = "Evaluate", !.dev = dev, !.err = ErrInvalidState]
               /\ UNCHANGED <<devices, session, matches>>
       /\ UNCHANGED <<call, accepted, nops, reader, getRes, genVars, globalOptions, raceVars>>

AttestProvision == Provision(AttestDevice, "onboard-cert")

AttestAdd ==
    /\ nops < MaxAttestWrites
    /\ \E o \in WriteOutcomes :
          \/ DoAddLogs(AttestDevice, "x", o)
          \/ DoAddInfo(AttestDevice, "x", o)
          \/ DoAddMetrics(AttestDevice, "x", o)
          \/ DoAddRequest(AttestDevice, "x", o)
          \/ DoAddFlowRecord(AttestDevice, "x", o)
          \/ DoAddAppLog(AttestDevice, "A", "x", o)

NextAttest ==
    \/ AttestProvision
    \/ SetGlobalOptions
    \/ IssueNonce
    \/ RecordMeasurement
    \/ DoEvaluate
    \/ AttestAdd

SpecAttest == Init /\ [][NextAttest]_vars

\* the file-name stem the specification asks for: every character outside
\* [A-Za-z0-9.-] replaced by "_"
StemAllowed == {"a", "Z", "7", ".", "-"}
StemOf(cn) == [i \in 1..Len(cn) |-> IF cn[i] \in StemAllowed THEN cn[i] ELSE "_"]

\* C6: in both commands the file-name stem is the common name with every
\* character outside [A-Za-z0-9.-] replaced by "_", and the generator gets
\* {dir}/{stem}.pem and {dir}/{stem}-key.pem.
C6_Sanitized ==
    genRun.generate # NoGenerate =>
        /\ genRun.cnSquashed = StemOf(genEnv.cn)
        /\ genRun.generate[1].certPath = Join(DbPath(genEnv), StemOf(genEnv.cn) \o SuffixPem)
        /\ genRun.generate[1].keyPath = Join(DbPath(genEnv), StemOf(genEnv.cn) \o SuffixKeyPem)

\* what separates the elements of a path when the platform opens it
Separators(goos) == IF goos = "windows" THEN {"/", "\\"} ELSE {"/"}

\* the file p names lies directly in the directory dir names
DirectChild(p, dir, goos) ==
    LET seps == Separators(goos)
        rp == Resolve(Split(p, seps), IsRooted(p, seps))
        rd == Resolve(Split(dir, seps), IsRooted(dir, seps))
    IN /\ Len(rp) = Len(rd) + 1
       /\ SubSeq(rp, 1, Len(rd)) = rd
       /\ rp[Len(rp)] # <<".", ".">>

\* C7: whatever the common name, the certPath and keyPath handed to the
\* generator name direct children of the target directory.
C7_NoTraversal ==
    genRun.generate # NoGenerate =>
        /\ DirectChild(genRun.generate[1].certPath, DbPath(genEnv), genEnv.goos)
        /\ DirectChild(genRun.generate[1].keyPath, DbPath(genEnv), genEnv.goos)

InvalidPathMessages ==
    { "onboarding path must be set", "onboarding database path does not exist",
      "onboarding database path is not a directory", "device path must be set",
      "device database path does not exist", "device database path is not a directory" }

\* C8: when the target directory is unset, missing or not a directory the
\* command fails with an invalid-path message and the generator is not
\* invoked; the generator is invoked only once the directory check passed.
C8_DirCheckedFirst ==
    genRun.exited =>
        IF DbPath(genEnv) = <<>> \/ genEnv.kind # "dir"
        THEN genRun.generate = NoGenerate /\ genRun.fatal \in InvalidPathMessages
        ELSE Len(genRun.generate) = 1 /\ genRun.fatal \notin InvalidPathMessages

C8_Witness ==
    /\ genRun.exited
    /\ genEnv.command = "device"
    /\ genEnv.kind = "file"
    /\ genEnv.cn = <<"a", "/", ".">>
    /\ genRun.fatal = "device database path is not a directory"
    /\ genRun.generate = NoGenerate

\* a template matches a reported template, stated value by value
MatchesReported(template, received) ==
    /\ template.eveVersion = received.eveVersion
    /\ template.firmwareVersion = received.firmwareVersion
    /\ \A k \in 1..Len(template.PCRValues) :
          \/ template.PCRValues[k].value = "*"
          \/ \E j \in 1..Len(received.PCRValues) :
                /\ received.PCRValues[j].index = template.PCRValues[k].index
                /\ received.PCRValues[j].value = template.PCRValues[k].value

\* C9: with enforcement on, Evaluate reports a match exactly when some
\* configured template has the reported versions and every value of it is the
\* wildcard or equals the reported value at its index, and the template it
\* selects is the first such one of the list; with enforcement off it
\* reports a match whatever the templates and the reported data.
C9_Evaluate ==
    (lastEval.op = "Evaluate" /\ lastEval.err = NoErr) =>
        IF ~lastEval.enforce THEN lastEval.matched
        ELSE LET hits == {i \in 1..Len(lastEval.templates) :
                            MatchesReported(lastEval.templates[i], lastEval.received)}
             IN /\ lastEval.matched <=> hits # {}
                /\ lastEval.matched => (lastEval.index \in hits /\ \A i \in hits : lastEval.index <= i)
                /\ ~lastEval.matched => lastEval.index = 0

C9_Witness ==
    /\ lastEval.op = "Evaluate"
    /\ lastEval.enforce
    /\ lastEval.templates = <<TemplateOther, TemplateExact, TemplateWildcard>>
    /\ lastEval.received.PCRValues = <<PCRValue(0, "zzz"), PCRValue(1, "abc")>>
    /\ lastEval.matched
    /\ lastEval.index = 2

Attested(dev) == ~devices[dev].Options.isNil /\ devices[dev].Options.attested

\* C10: from the base options on, a device's attested flag is true only if an
\* evaluation found a template of the GlobalOptions of that moment matching
\* the device's reported template; only such an evaluation sets the flag.
C10_AttestedOnlyByMatch ==
    /\ [](\A dev \in Devices :
            Attested(dev) =>
               \E m \in matches :
                  /\ m.dev = dev
                  /\ \E i \in 1..Len(m.templates) : MatchesReported(m.templates[i], m.received))
    /\ [][\A dev \in Devices :
            (Attested(dev)' /\ ~Attested(dev)) =>
               /\ lastEval'.op = "Evaluate"
               /\ lastEval'.dev = dev
               /\ lastEval'.enforce /\ lastEval'.matched
               /\ lastEval'.templates = globalOptions.PCRTemplates]_vars

C10_Witness ==
    /\ Attested(AttestDevice)
    /\ session[AttestDevice].stage = "NonceIssued"
    /\ devices[AttestDevice].Options.nonce = FreshNonce(2)
    /\ call.op = "AddLogs" /\ call.err = NoErr
    /\ ~globalOptions.enforceTemplateAttestation

\* ------------------- SpecRace: goroutines sharing the AppLogs of one device
\* DeviceStorage has no lock and AddAppLog takes none, so a substream
\* creation (the caller's d.AppLogs[id] = stream) running while another
\* creation or an AddAppLog lookup runs is a data race on the map.  The
\* runtime may detect it and end the process, or not detect it: two inserts
\* that chose the same free slot then overwrite one another.
Others(i) == Instances \ {i}
Assigning == {i \in Instances : creator[i].pc = "assigning"}
MapWith(m, key, stream) == [k \in DOMAIN m \cup {key} |-> IF k = key THEN stream ELSE m[k]]
MapWithout(m, keys) == [k \in DOMAIN m \ keys |-> m[k]]

\* the caller starts d.AppLogs[i] = stream: the insert picks its slot
CreateBegin(i) ==
    /\ raceFatal = ""
    /\ creator[i].pc = "idle"
    /\ creator' = [j \in Instances |->
                     IF j = i THEN [pc |-> "assigning", shared |-> Assigning # {}]
                     ELSE IF creator[j].pc = "assigning" THEN [creator[j] EXCEPT !.shared = TRUE]
                     ELSE creator[j]]
    /\ UNCHANGED <<storageVars, genVars, attestVars, raceMap, raceStreams, appender, visible, raceFatal>>

\* the insert completes: alone it adds the key; having overlapped another
\* insert it may be detected, add the key, replace the other insert's entry,
\* or leave the other insert's key on this insert's stream
CreateEnd(i) ==
    /\ raceFatal = ""
    /\ creator[i].pc = "assigning"
    /\ creator' = [creator EXCEPT ![i].pc = "done"]
    /\ IF ~creator[i].shared
       THEN raceMap' = MapWith(raceMap, i, i) /\ UNCHANGED raceFatal
       ELSE \E outcome \in {"throw", "kept", "overwrite", "torn"} :
              CASE outcome = "throw" ->
                     raceFatal' = "fatal error: concurrent map writes" /\ UNCHANGED raceMap
                [] outcome = "kept" ->
                     raceMap' = MapWith(raceMap, i, i) /\ UNCHANGED raceFatal
                [] outcome = "overwrite" ->
                     raceMap' = MapWith(MapWithout(raceMap, Others(i)), i, i) /\ UNCHANGED raceFatal
                [] outcome = "torn" ->
                     /\ raceMap' = IF DOMAIN raceMap \cap Others(i) # {}
                                   THEN [k \in DOMAIN raceMap |-> IF k \in Others(i) THEN i ELSE raceMap[k]]
                                   ELSE MapWith(raceMap, i, i)
                     /\ UNCHANGED raceFatal
    /\ UNCHANGED <<storageVars, genVars, attestVars, raceStreams, appender, visible>>

\* AddAppLog(i, b) entered: the mapping is not nil
AppendCall(i, b) ==
    /\ raceFatal = ""
    /\ appender[i].pc = "idle"
    /\ appender[i].calls < MaxRaceCalls
    /\ appender' = [appender EXCEPT ![i].pc = "lookup", ![i].data = b]
    /\ UNCHANGED <<storageVars, genVars, attestVars, raceMap, raceStreams, creator, visible, raceFatal>>

\* _, ok := d.AppLogs[i]: a read of the map, racing with any insert under way
AppendLookup(i) ==
    /\ raceFatal = ""
    /\ appender[i].pc = "lookup"
    /\ \E detected \in (IF Assigning = {} THEN {FALSE} ELSE BOOLEAN) :
         IF detected
         THEN /\ raceFatal' = "fatal error: concurrent map read and map write"
              /\ UNCHANGED <<appender, visible>>
         ELSE /\ UNCHANGED raceFatal
              /\ IF i \in DOMAIN raceMap
                 THEN /\ appender' = [appender EXCEPT ![i].pc = "write"]
                      /\ visible' = visible \cup {i}
                 ELSE /\ appender' = [appender EXCEPT ![i].pc = "idle", ![i].calls = @ + 1,
                                                      ![i].err = ErrAppLogsInstance(i)]
                      /\ UNCHANGED visible
    /\ UNCHANGED <<storageVars, genVars, attestVars, raceMap, raceStreams, creator>>

\* d.AppLogs[i].Write(b): a second read of the map, then the Write; a key
\* gone since the lookup reads as a nil stream, and calling Write on it panics
AppendWrite(i, o) ==
    /\ raceFatal = ""
    /\ appender[i].pc = "write"
    /\ \E detected \in (IF Assigning = {} THEN {FALSE} ELSE BOOLEAN) :
         IF detected
         THEN /\ raceFatal' = "fatal error: concurrent map read and map write"
              /\ UNCHANGED <<appender, raceStreams>>
         ELSE IF i \notin DOMAIN raceMap
         THEN /\ raceFatal' = "panic: nil pointer dereference"
              /\ UNCHANGED <<appender, raceStreams>>
         ELSE /\ UNCHANGED raceFatal
              /\ raceStreams' =
                    IF o = NoErr
                    THEN [raceStreams EXCEPT ![raceMap[i]] =
                             Append(@, [instance |-> i, data |-> appender[i].data])]
                    ELSE raceStreams
              /\ appender' = [appender EXCEPT ![i].pc = "idle", ![i].calls = @ + 1, ![i].err = o]
    /\ UNCHANGED <<storageVars, genVars, attestVars, raceMap, creator, visible>>

NextRace ==
    \/ \E i \in Instances : CreateBegin(i)
    \/ \E i \in Instances : CreateEnd(i)
    \/ \E i \in Instances, b \in Data : AppendCall(i, b)
    \/ \E i \in Instances : AppendLookup(i)
    \/ \E i \in Instances, o \in WriteOutcomes : AppendWrite(i, o)

SpecRace == Init /\ [][NextRace]_vars

\* C4: in every interleaving of the creations and the AddAppLog calls for two
\* instances, data written for an instance is only in that instance's stream,
\* a key some AddAppLog call has found stays in the mapping, and no creation
\* is lost or duplicated.
C4_AppLogIsolation ==
    /\ \A h \in Instances : \A k \in 1..Len(raceStreams[h]) : raceStreams[h][k].instance = h
    /\ visible \subseteq DOMAIN raceMap
    /\ \A i \in Instances : creator[i].pc = "done" /\ raceFatal = "" => i \in DOMAIN raceMap
    /\ \A i, j \in DOMAIN raceMap : raceMap[i] = raceMap[j] => i = j

====
